---- MODULE Spec2Model ----
(***************************************************************************)
(* argon2derive: one invocation of the command-line tool, from the parsed  *)
(* `Cli` to the process result.  The three commands of `main` (configure,  *)
(* secret, age) are modelled stage by stage: parameter resolution, salt    *)
(* composition, passphrase acquisition, derivation, output.                *)
(*                                                                         *)
(* Strings and byte vectors are sequences of byte codes.  A u32 that takes *)
(* part in arithmetic (the memory cost) is kept at its width as two 16-bit *)
(* limbs [hi, lo]; u32 values that are only passed through (time,          *)
(* parallelism, length) are naturals.  Option<T> is [some, v].             *)
(***************************************************************************)
EXTENDS Naturals, Sequences, FiniteSets

\* ---------------------------------------------------------------- bounds

\* Secret/key names are the prefixes of NameText of at most this length.
MaxNameLen == 2
\* Typed passphrase lines hold at most this many bytes before the terminator.
MaxLineLen == 1

\* ------------------------------------------------------------- constants

MIN_SALT_LEN == 8
\* The factor of `cli.memory? * 1024 * 1024`.
KIB == 1024
\* Output length the age command asks for, and the secret command's default.
KEY_LEN == 32

Base == 2 ^ 16

\* ------------------------------------------------------------ u32 limbs

U32(n) == [hi |-> n \div Base, lo |-> n % Base]

U32Value(x) == x.hi * Base + x.lo

\* x * 1024 overflows a u32 iff x >= 2^22, i.e. the top 10 bits are not zero.
MulKibOverflows(x) == x.hi \div (Base \div KIB) > 0

\* x * 1024 modulo 2^32.
WrappingMulKib(x) ==
    [hi |-> (x.hi % (Base \div KIB)) * KIB + x.lo \div (Base \div KIB),
     lo |-> (x.lo % (Base \div KIB)) * KIB]

\* ------------------------------------------------------------- options

Some(x) == [some |-> TRUE, v |-> x]
None(d) == [some |-> FALSE, v |-> d]

\* --------------------------------------------------------------- inputs

Prefix(s, n) == SubSeq(s, 1, n)

\* "name"
NameText == <<110, 97, 109, 101>>
Names == {Prefix(NameText, n) : n \in 0..MaxNameLen}

\* "abcdefgh"
SaltText == <<97, 98, 99, 100, 101, 102, 103, 104>>
SaltLens == {0, MIN_SALT_LEN - 2, MIN_SALT_LEN}
CliSalts == {None(<<>>)} \cup {Some(Prefix(SaltText, n)) : n \in SaltLens}

\* "pwd"
LineText == <<112, 119, 100>>
LineContents == {Prefix(LineText, n) : n \in 0..MaxLineLen}
LF == <<10>>
CRLF == <<13, 10>>
\* A line ends with its terminator, or with the end of input (no terminator).
Terminators == {<<>>, LF, CRLF}

Algorithms == {"argon2d", "argon2id"}

\* `--algorithm` as given on the command line, if given.
AlgorithmArgs == {None("")} \cup {Some(a) : a \in Algorithms}

\* #[arg(.., default_value = "argon2id")] algorithm: argon2::Algorithm
ParseAlgorithmArg(a) == IF a.some THEN a.v ELSE "argon2id"

\* 4095 is the largest memory whose scaled value fits a u32.
CliMemories == {None(U32(0)), Some(U32(1)), Some(U32(4095)), Some(U32(4096))}
CliTimes == {None(0), Some(3)}
CliParallelisms == {None(0), Some(2)}

Encodings == {"hex", "base64"}
Lengths == {KEY_LEN, 16}

SecretCommands ==
    [kind : {"secret"}, overwrite : {FALSE}, name : Names,
     length : Lengths, encoding : Encodings]
AgeCommands ==
    [kind : {"age"}, overwrite : {FALSE}, name : Names,
     length : {KEY_LEN}, encoding : {"hex"}]
ConfigureCommands ==
    [kind : {"configure"}, overwrite : BOOLEAN, name : {<<>>},
     length : {KEY_LEN}, encoding : {"hex"}]
Commands == SecretCommands \cup AgeCommands \cup ConfigureCommands

Clis ==
    [algorithm : Algorithms, memory : CliMemories, time : CliTimes,
     parallelism : CliParallelisms, salt : CliSalts, config : BOOLEAN,
     expose_passphrase : BOOLEAN, command : Commands]

\* ------------------------------------------------------ config::File

NoRecord == [algorithm |-> "", memory |-> U32(0), time |-> 0,
             parallelism |-> 0, salt |-> None(<<>>)]

\* What is at the configuration path: nothing, something unreadable, text
\* that is not a record, or a record.
Absent == [kind |-> "absent", rec |-> NoRecord]
Unreadable == [kind |-> "unreadable", rec |-> NoRecord]
Malformed == [kind |-> "malformed", rec |-> NoRecord]
Record(r) == [kind |-> "record", rec |-> r]

InitialRecords ==
    {[algorithm |-> "argon2d", memory |-> U32(1048576), time |-> 5,
      parallelism |-> 4, salt |-> Some(SaltText)],
     [algorithm |-> "argon2id", memory |-> U32(1), time |-> 1,
      parallelism |-> 1, salt |-> None(<<>>)],
     [algorithm |-> "argon2i", memory |-> U32(1048576), time |-> 5,
      parallelism |-> 4, salt |-> Some(SaltText)]}

InitialFiles == {Absent, Unreadable, Malformed} \cup {Record(r) : r \in InitialRecords}

\* ---------------------------------------------------------------- state

VARIABLES
    algorithm_arg,   \* `--algorithm` as given, if given
    cli,             \* the parsed command line (Cli::parse)
    file,            \* what is at the configuration path
    file0,           \* what was at the configuration path when main started
    defaultDir,      \* whether config::default_dir() finds a directory
    overflowChecks,  \* the build: u32 overflow panics (debug) or wraps (release)
    pc,              \* the stage of main that runs next
    result,          \* "running", "ok", or the error main returns
    params,          \* argon2::Parameters, once resolved
    cfg,             \* the config::File configure is about to write
    stdin,           \* what standard input turned out to be, once read
    passphrase,      \* the String `passphrase` of derive_secret
    hashCalls,       \* the argument lists handed to argon2::hash, in order
    derived,         \* the bytes argon2::hash returned
    stdout,          \* what was printed to standard output, in order
    reads,           \* how often the configuration file was read
    writes           \* how often the configuration file was written

vars == <<algorithm_arg, cli, file, file0, defaultDir, overflowChecks, pc,
          result, params, cfg, stdin, passphrase, hashCalls, derived, stdout,
          reads, writes>>

NoParams == [algorithm |-> "", memory |-> U32(0), time |-> 0,
             parallelism |-> 0, salt |-> <<>>]

NoStdin == [read |-> FALSE, terminal |-> FALSE, content |-> <<>>,
            terminator |-> <<>>]

\* ------------------------------------------------- argon2::Parameters

\* impl FromStr for Algorithm
AlgorithmFromStr(s) ==
    IF s \in Algorithms THEN [ok |-> TRUE, v |-> s] ELSE [ok |-> FALSE, v |-> ""]

\* impl fmt::Display for Algorithm
AlgorithmToString(a) == a

none_defined(c) ==
    /\ ~c.memory.some
    /\ ~c.time.some
    /\ ~c.parallelism.some
    /\ ~c.salt.some

\* `cli.memory? * 1024 * 1024`: two u32 multiplications, left to right.  With
\* overflow checks the first one that overflows panics; without, both wrap.
ScaleMemory(m, checks) ==
    LET once == WrappingMulKib(m)
    IN  IF checks /\ (MulKibOverflows(m) \/ MulKibOverflows(once))
        THEN [panic |-> TRUE, v |-> U32(0)]
        ELSE [panic |-> FALSE, v |-> WrappingMulKib(once)]

\* from_cli_opt: the struct's fields are evaluated in the order written, so
\* the memory is scaled before `cli.time?` and `cli.parallelism?` are looked at.
from_cli_opt(c, checks) ==
    IF ~c.memory.some THEN [tag |-> "none", v |-> NoParams]
    ELSE LET mem == ScaleMemory(c.memory.v, checks)
         IN  IF mem.panic THEN [tag |-> "panic", v |-> NoParams]
             ELSE IF ~c.time.some \/ ~c.parallelism.some
                  THEN [tag |-> "none", v |-> NoParams]
                  ELSE [tag |-> "some",
                        v |-> [algorithm |-> c.algorithm,
                               memory |-> mem.v,
                               time |-> c.time.v,
                               parallelism |-> c.parallelism.v,
                               salt |-> IF c.salt.some THEN c.salt.v ELSE <<>>]]

\* from_cli: Ok(None) ("none"), Ok(Some(params)) ("some"), the
\* missing-required-parameters error ("err"), or a panic.
from_cli(c, checks) ==
    IF none_defined(c) THEN [tag |-> "none", v |-> NoParams]
    ELSE LET opt == from_cli_opt(c, checks)
         IN  IF opt.tag = "none" THEN [tag |-> "err", v |-> NoParams] ELSE opt

\* Faulty variant of ParametersTryFrom: the record's memory is scaled like `--memory`.
ParametersTryFromRescaled(r) ==
    LET alg == AlgorithmFromStr(r.algorithm)
    IN  [ok |-> alg.ok,
         v |-> [algorithm |-> alg.v,
                memory |-> WrappingMulKib(WrappingMulKib(r.memory)),
                time |-> r.time,
                parallelism |-> r.parallelism,
                salt |-> IF r.salt.some THEN r.salt.v ELSE <<>>]]

\* Faulty variant of ParametersTryFrom: the algorithm is the command line's, not the
\* record's.
ParametersTryFromCliAlgorithm(r) ==
    [ok |-> TRUE,
     v |-> [algorithm |-> cli.algorithm,
            memory |-> r.memory,
            time |-> r.time,
            parallelism |-> r.parallelism,
            salt |-> IF r.salt.some THEN r.salt.v ELSE <<>>]]

\* impl TryFrom<config::File> for argon2::Parameters
ParametersTryFrom(r) ==
    LET alg == AlgorithmFromStr(r.algorithm)
    IN  [ok |-> alg.ok,
         v |-> [algorithm |-> alg.v,
                memory |-> r.memory,
                time |-> r.time,
                parallelism |-> r.parallelism,
                salt |-> IF r.salt.some THEN r.salt.v ELSE <<>>]]

\* impl From<argon2::Parameters> for config::File
FileFrom(p) ==
    [algorithm |-> AlgorithmToString(p.algorithm),
     memory |-> p.memory,
     time |-> p.time,
     parallelism |-> p.parallelism,
     salt |-> IF p.salt = <<>> THEN None(<<>>) ELSE Some(p.salt)]

\* Cli::config_path: --config, or else the default directory.
config_path_ok(c, dd) == c.config \/ dd

\* Cli::read_config with config::File::read: "none" (no file), "some" (a
\* record), or the error.
read_config(c, dd, f) ==
    IF ~config_path_ok(c, dd) THEN [tag |-> "ConfigPathError", v |-> NoRecord]
    ELSE IF f.kind = "absent" THEN [tag |-> "none", v |-> NoRecord]
    ELSE IF f.kind = "unreadable" THEN [tag |-> "ConfigReadError", v |-> NoRecord]
    ELSE IF f.kind = "malformed" THEN [tag |-> "ConfigParseError", v |-> NoRecord]
    ELSE [tag |-> "some", v |-> f.rec]

\* ------------------------------------------------------- argon2::hash

\* The arguments argon2::hash hands to argon2_kdf::Hasher, as it sets them.
HashArgs(p, password, output_len) ==
    [algorithm |-> p.algorithm,
     hash_length |-> output_len,
     custom_salt |-> p.salt,
     memory_cost_kib |-> p.memory,
     iterations |-> p.time,
     threads |-> p.parallelism,
     password |-> password]

NoArgs == HashArgs(NoParams, <<>>, 0)

\* The primitive is a black box: its output is a function of its arguments
\* and nothing else.
Hash(args) == [argon2 |-> args]

NoHash == Hash(NoArgs)

\* ----------------------------------------------------- the output stage

\* hex::encode / general_purpose::STANDARD.encode of the derived bytes.
Encode(encoding, bytes) == [text |-> encoding, of |-> bytes]

\* age::identity of the derived bytes.  Its two bech32 prefixes are fixed and
\* valid, so it does not fail.
Identity(bytes) == [text |-> "age", of |-> bytes]

\* ---------------------------------------------------------------- Init

FirstStage(c) == IF c.command.kind = "configure" THEN "configure_read" ELSE "resolve"

Init ==
    /\ algorithm_arg \in AlgorithmArgs
    /\ cli \in {c \in Clis : c.algorithm = ParseAlgorithmArg(algorithm_arg)}
    /\ file \in InitialFiles
    /\ file0 = file
    /\ defaultDir \in BOOLEAN
    /\ overflowChecks \in BOOLEAN
    /\ pc = FirstStage(cli)
    /\ result = "running"
    /\ params = NoParams
    /\ cfg = NoRecord
    /\ stdin = NoStdin
    /\ passphrase = <<>>
    /\ hashCalls = <<>>
    /\ derived = NoHash
    /\ stdout = <<>>
    /\ reads = 0
    /\ writes = 0

\* `return Err(..)` / `?` / a panic: main ends with the error.
Fail(e) == pc' = "done" /\ result' = e

\* ----------------------------------------------------------- configure

\* Faulty variant of ConfigureRead: an existing record does not stop configure.
ConfigureReadUnguarded ==
    /\ pc = "configure_read"
    /\ LET r == read_config(cli, defaultDir, file)
       IN  /\ reads' = IF config_path_ok(cli, defaultDir) THEN reads + 1 ELSE reads
           /\ IF r.tag \notin {"none", "some"} THEN Fail(r.tag)
              ELSE pc' = "configure_params" /\ result' = result
    /\ UNCHANGED <<algorithm_arg, cli, file, file0, defaultDir,
                   overflowChecks, params, cfg, stdin, passphrase, hashCalls,
                   derived, stdout, writes>>

\* main, Commands::Configure: `cli.read_config()?.is_some() && !args.overwrite`
ConfigureRead ==
    /\ pc = "configure_read"
    /\ LET r == read_config(cli, defaultDir, file)
       IN  /\ reads' = IF config_path_ok(cli, defaultDir) THEN reads + 1 ELSE reads
           /\ IF r.tag \notin {"none", "some"} THEN Fail(r.tag)
              ELSE IF r.tag = "some" /\ ~cli.command.overwrite THEN Fail("ConfigExists")
              ELSE pc' = "configure_params" /\ result' = result
    /\ UNCHANGED <<algorithm_arg, cli, file, file0, defaultDir,
                   overflowChecks, params, cfg, stdin, passphrase, hashCalls,
                   derived, stdout, writes>>

\* main, Commands::Configure: from_cli(&cli)?.context(..).map(config::File::from)?
ConfigureParams ==
    /\ pc = "configure_params"
    /\ LET fc == from_cli(cli, overflowChecks)
       IN  IF fc.tag = "panic" THEN Fail("Panic") /\ cfg' = cfg
           ELSE IF fc.tag \in {"none", "err"}
                THEN Fail("MissingRequiredParameters") /\ cfg' = cfg
                ELSE /\ cfg' = FileFrom(fc.v)
                     /\ pc' = "configure_write"
                     /\ result' = result
    /\ UNCHANGED <<algorithm_arg, cli, file, file0, defaultDir,
                   overflowChecks, params, stdin, passphrase, hashCalls,
                   derived, stdout, reads, writes>>

\* Cli::write_config with config::File::write.  create_dir_all may fail
\* before anything is written; fs::write creates (truncates) the file and
\* then writes the text, and may fail before or after the truncation.
WriteOutcomes == {"written", "dir_error", "create_error", "write_error"}

ConfigureWrite ==
    /\ pc = "configure_write"
    /\ IF ~config_path_ok(cli, defaultDir)
       THEN Fail("ConfigPathError") /\ UNCHANGED <<file, writes>>
       ELSE \E outcome \in WriteOutcomes :
              /\ file' = CASE outcome = "written" -> Record(cfg)
                           [] outcome = "write_error" -> Malformed
                           [] OTHER -> file
              /\ writes' = IF outcome \in {"written", "write_error"}
                           THEN writes + 1 ELSE writes
              /\ IF outcome = "written"
                 THEN pc' = "done" /\ result' = "ok"
                 ELSE Fail("ConfigWriteError")
    /\ UNCHANGED <<algorithm_arg, cli, file0, defaultDir, overflowChecks,
                   params, cfg, stdin, passphrase, hashCalls, derived, stdout,
                   reads>>

\* ------------------------------------------------------- derive_secret

\* derive_secret: `match from_cli(self)? { Some(params) => params,
\*   None => self.read_config()?.context("missing config file")?.try_into()? }`
Resolve ==
    /\ pc = "resolve"
    /\ LET fc == from_cli(cli, overflowChecks)
           r == read_config(cli, defaultDir, file)
           tf == ParametersTryFrom(r.v)
       IN  IF fc.tag = "panic"
           THEN Fail("Panic") /\ UNCHANGED <<params, reads>>
           ELSE IF fc.tag = "err"
           THEN Fail("MissingRequiredParameters") /\ UNCHANGED <<params, reads>>
           ELSE IF fc.tag = "some"
           THEN /\ params' = fc.v
                /\ pc' = "salt"
                /\ UNCHANGED <<result, reads>>
           ELSE /\ reads' = IF config_path_ok(cli, defaultDir) THEN reads + 1 ELSE reads
                /\ IF r.tag = "none" THEN Fail("MissingConfigFile") /\ params' = params
                   ELSE IF r.tag # "some" THEN Fail(r.tag) /\ params' = params
                   ELSE IF ~tf.ok THEN Fail("ConfigParseError") /\ params' = params
                   ELSE /\ params' = tf.v
                        /\ pc' = "salt"
                        /\ result' = result
    /\ UNCHANGED <<algorithm_arg, cli, file, file0, defaultDir,
                   overflowChecks, cfg, stdin, passphrase, hashCalls, derived,
                   stdout, writes>>

\* Faulty variant of ExtendSalt: the name comes first.
ExtendSaltNameFirst(salt, name) == name \o salt

\* params.salt.extend_from_slice(name.as_bytes())
ExtendSalt(salt, name) == salt \o name

\* Faulty variant of SaltTooShort: a salt of exactly MIN_SALT_LEN bytes is rejected.
SaltTooShortInclusive(salt) == Len(salt) <= MIN_SALT_LEN

\* params.salt.len() < argon2::MIN_SALT_LEN
SaltTooShort(salt) == Len(salt) < MIN_SALT_LEN

\* derive_secret: the salt is extended by the name and checked against
\* MIN_SALT_LEN.  (The empty-salt warning goes to standard error.)
ComposeSalt ==
    /\ pc = "salt"
    /\ params' = [params EXCEPT !.salt = ExtendSalt(params.salt, cli.command.name)]
    /\ IF SaltTooShort(params'.salt)
       THEN Fail("SaltTooShort")
       ELSE pc' = "passphrase" /\ result' = result
    /\ UNCHANGED <<algorithm_arg, cli, file, file0, defaultDir,
                   overflowChecks, cfg, stdin, passphrase, hashCalls, derived,
                   stdout, reads, writes>>

\* stdin.read_line(&mut passphrase): the line with its terminator.
read_line(content, terminator) == content \o terminator

\* rpassword::read_password(): the line without its terminator.
read_password(content, terminator) == content

\* What derive_secret reads into `passphrase`.
ReadPassphrase(terminal, expose, content, terminator) ==
    IF terminal
    THEN IF expose THEN read_line(content, terminator)
                   ELSE read_password(content, terminator)
    ELSE read_line(content, terminator)

\* derive_secret: the passphrase is read from standard input, whatever that
\* turns out to be, and rejected when empty.  Any of the reads may fail.
AcquirePassphrase ==
    /\ pc = "passphrase"
    /\ \E terminal \in BOOLEAN, content \in LineContents,
          terminator \in Terminators, io_ok \in BOOLEAN :
         /\ stdin' = [read |-> TRUE, terminal |-> terminal, content |-> content,
                      terminator |-> terminator]
         /\ IF ~io_ok
            THEN Fail("IoError") /\ passphrase' = passphrase
            ELSE /\ passphrase' = ReadPassphrase(terminal, cli.expose_passphrase,
                                                 content, terminator)
                 /\ IF passphrase' = <<>>
                    THEN Fail("EmptyPassphrase")
                    ELSE pc' = "derive" /\ result' = result
    /\ UNCHANGED <<algorithm_arg, cli, file, file0, defaultDir,
                   overflowChecks, params, cfg, hashCalls, derived, stdout,
                   reads, writes>>

\* derive_secret: argon2::hash(&params, passphrase.as_bytes(), output_len).
\* The primitive returns its hash or an error of its own.
Derive ==
    /\ pc = "derive"
    /\ LET args == HashArgs(params, passphrase, cli.command.length)
       IN  /\ hashCalls' = Append(hashCalls, args)
           /\ \E primitive_ok \in BOOLEAN :
                IF primitive_ok
                THEN derived' = Hash(args) /\ pc' = "output" /\ result' = result
                ELSE Fail("DerivationError") /\ derived' = derived
    /\ UNCHANGED <<algorithm_arg, cli, file, file0, defaultDir,
                   overflowChecks, params, cfg, stdin, passphrase, stdout,
                   reads, writes>>

\* Faulty variant of OutputSecret: the "Secret:" header is printed to standard
\* output too.
OutputSecretWithHeader ==
    /\ pc = "output"
    /\ cli.command.kind = "secret"
    /\ stdout' = stdout \o <<Encode("header", NoHash),
                              Encode(cli.command.encoding, derived)>>
    /\ pc' = "done"
    /\ result' = "ok"
    /\ UNCHANGED <<algorithm_arg, cli, file, file0, defaultDir,
                   overflowChecks, params, cfg, stdin, passphrase, hashCalls,
                   derived, reads, writes>>

\* main, Commands::Secret: print!("{encoded}")
OutputSecret ==
    /\ pc = "output"
    /\ cli.command.kind = "secret"
    /\ stdout' = Append(stdout, Encode(cli.command.encoding, derived))
    /\ pc' = "done"
    /\ result' = "ok"
    /\ UNCHANGED <<algorithm_arg, cli, file, file0, defaultDir,
                   overflowChecks, params, cfg, stdin, passphrase, hashCalls,
                   derived, reads, writes>>

\* main, Commands::Age: print!("{identity}")
OutputAge ==
    /\ pc = "output"
    /\ cli.command.kind = "age"
    /\ stdout' = Append(stdout, Identity(derived))
    /\ pc' = "done"
    /\ result' = "ok"
    /\ UNCHANGED <<algorithm_arg, cli, file, file0, defaultDir,
                   overflowChecks, params, cfg, stdin, passphrase, hashCalls,
                   derived, reads, writes>>

Next ==
    \/ ConfigureRead
    \/ ConfigureParams
    \/ ConfigureWrite
    \/ Resolve
    \/ ComposeSalt
    \/ AcquirePassphrase
    \/ Derive
    \/ OutputSecret
    \/ OutputAge

Spec == Init /\ [][Next]_vars

\* ====================================================== properties

Deriving == cli.command.kind \in {"secret", "age"}

AllThree(c) == c.memory.some /\ c.time.some /\ c.parallelism.some

\* The errors with which parameter resolution ends derive_secret.
ResolutionErrors ==
    {"Panic", "MissingRequiredParameters", "MissingConfigFile",
     "ConfigPathError", "ConfigReadError", "ConfigParseError"}

\* derive_secret has left parameter resolution with parameters.
Resolved == Deriving /\ pc # "resolve" /\ result \notin ResolutionErrors

\* derive_secret has run its salt check.
SaltChecked == Resolved /\ pc # "salt"

\* derive_secret has read a line from standard input without an I/O error.
Acquired == SaltChecked /\ stdin.read /\ result # "IoError"

WellFormed(f) == f.kind = "record" /\ f.rec.algorithm \in Algorithms

\* The base salt of the invocation: `--salt` when parameters are explicit,
\* the record's salt when the record is used; empty when there is none.
BaseSalt ==
    IF none_defined(cli)
    THEN IF file0.rec.salt.some THEN file0.rec.salt.v ELSE <<>>
    ELSE IF cli.salt.some THEN cli.salt.v ELSE <<>>

\* m * 1024 * 1024 modulo 2^32 as limbs: m * 2^20 = (16 * m) * 2^16.
ScaledModulo(m) == [hi |-> (16 * U32Value(m)) % Base, lo |-> 0]

\* x, a u32, equals m * 1024 * 1024 as a mathematical integer:
\* hi * 2^16 + lo = (16 * m) * 2^16.
EqualsScaled(x, m) == x.lo = 0 /\ x.hi = 16 * U32Value(m)

\* C1: the arguments handed to the derivation primitive are a fixed function
\* of the algorithm, memory, time, parallelism, base salt, name, passphrase
\* and output length alone (the memory scaled by 1024 * 1024 when explicit,
\* the salt being the base salt followed by the name), so two invocations
\* that agree on these hand over identical arguments; and the primitive's
\* output is the one it gives for these arguments.
DeterministicArguments ==
    \A i \in 1..Len(hashCalls) :
        /\ i = 1
        /\ hashCalls[i] =
             IF none_defined(cli)
             THEN [algorithm |-> file0.rec.algorithm,
                   hash_length |-> cli.command.length,
                   custom_salt |-> BaseSalt \o cli.command.name,
                   memory_cost_kib |-> file0.rec.memory,
                   iterations |-> file0.rec.time,
                   threads |-> file0.rec.parallelism,
                   password |-> passphrase]
             ELSE [algorithm |-> cli.algorithm,
                   hash_length |-> cli.command.length,
                   custom_salt |-> BaseSalt \o cli.command.name,
                   memory_cost_kib |-> ScaledModulo(cli.memory.v),
                   iterations |-> cli.time.v,
                   threads |-> cli.parallelism.v,
                   password |-> passphrase]
        /\ pc \in {"output", "done"} /\ result \in {"running", "ok"}
             => derived = [argon2 |-> hashCalls[i]]

\* A derivation with explicit parameters, a non-empty base salt and a
\* non-empty name has produced its output.
DeterministicArgumentsWitness ==
    /\ pc = "done" /\ result = "ok" /\ Deriving
    /\ AllThree(cli) /\ cli.salt.some /\ cli.salt.v # <<>>
    /\ cli.command.name # <<>>
    /\ Len(hashCalls) = 1

\* C2: whenever at least one of memory, time, parallelism and salt is given
\* but not all of memory, time and parallelism, derive_secret ends with the
\* missing-required-parameters error, without reading the persisted record
\* and without invoking the derivation primitive.
AllOrNothing ==
    (Deriving /\ pc # "resolve" /\ ~none_defined(cli) /\ ~AllThree(cli))
        => /\ pc = "done"
           /\ result = "MissingRequiredParameters"
           /\ reads = 0
           /\ hashCalls = <<>>

\* C3: when none of memory, time, parallelism and salt is given,
\* derive_secret reads the persisted record once; a well-formed record
\* resolves, and the derivation uses its memory (as stored), time,
\* parallelism and salt; an absent record is the missing-configuration
\* error; a malformed record or one with an unknown algorithm tag is a parse
\* error; in both failure cases the primitive is not invoked.
FallbackToRecord ==
    (Deriving /\ pc # "resolve" /\ none_defined(cli) /\ config_path_ok(cli, defaultDir))
        => /\ reads = 1
           /\ WellFormed(file0) =>
                /\ Resolved
                /\ params.memory = file0.rec.memory
                /\ params.time = file0.rec.time
                /\ params.parallelism = file0.rec.parallelism
                /\ \A i \in 1..Len(hashCalls) :
                     /\ hashCalls[i].memory_cost_kib = file0.rec.memory
                     /\ hashCalls[i].iterations = file0.rec.time
                     /\ hashCalls[i].threads = file0.rec.parallelism
                     /\ hashCalls[i].custom_salt = BaseSalt \o cli.command.name
           /\ file0.kind = "absent" =>
                result = "MissingConfigFile" /\ hashCalls = <<>>
           /\ (file0.kind = "malformed" \/ (file0.kind = "record" /\ ~WellFormed(file0))) =>
                result = "ConfigParseError" /\ hashCalls = <<>>

\* A derivation from the persisted record alone has produced its output.
FallbackToRecordWitness ==
    /\ pc = "done" /\ result = "ok" /\ Deriving
    /\ none_defined(cli) /\ WellFormed(file0)
    /\ Len(hashCalls) = 1
    /\ hashCalls[1].memory_cost_kib = file0.rec.memory
    /\ file0.rec.memory # [hi |-> 0, lo |-> 0]

\* C4: once derive_secret has composed the salt, a combined length of base
\* salt and name below 8 bytes has ended it with the salt-too-short error
\* with standard input unread and the primitive not invoked, and a combined
\* length of 8 or more has not failed the salt check.
MinimumSaltFirst ==
    SaltChecked =>
        IF Len(BaseSalt) + Len(cli.command.name) < 8
        THEN /\ pc = "done"
             /\ result = "SaltTooShort"
             /\ ~stdin.read
             /\ hashCalls = <<>>
        ELSE result # "SaltTooShort"

\* An 8-byte base salt with an empty name has passed the salt check.
MinimumSaltFirstWitness ==
    /\ SaltChecked /\ pc = "passphrase"
    /\ Len(BaseSalt) = 8 /\ cli.command.name = <<>>

\* C5: when standard input is not a terminal and the line read from it is
\* empty (only its terminator, or the end of input at once), derive_secret
\* ends with the empty-passphrase error and the primitive is not invoked.
EmptyPipedLineRejected ==
    (Acquired /\ ~stdin.terminal /\ stdin.content = <<>>)
        => /\ pc = "done"
           /\ result = "EmptyPassphrase"
           /\ hashCalls = <<>>

\* C6: standard output is written only by a secret or age command whose
\* resolution, salt composition, passphrase acquisition and derivation have
\* all succeeded, and then holds exactly the encoded secret or the identity
\* text, once; an invocation that ends with an error has written nothing.
NoOutputOnFailure ==
    /\ stdout # <<>> =>
         /\ pc = "done" /\ result = "ok" /\ Deriving
         /\ Acquired /\ passphrase # <<>>
         /\ Len(hashCalls) = 1 /\ derived = [argon2 |-> hashCalls[1]]
         /\ stdout = IF cli.command.kind = "secret"
                     THEN <<[text |-> cli.command.encoding, of |-> derived]>>
                     ELSE <<[text |-> "age", of |-> derived]>>
    /\ (pc = "done" /\ result # "ok") => stdout = <<>>
    /\ (pc = "done" /\ result = "ok" /\ Deriving) => Len(stdout) = 1

\* A derivation has failed in the primitive, after every earlier stage
\* succeeded.
NoOutputOnFailureWitness ==
    /\ pc = "done" /\ result = "DerivationError" /\ Len(hashCalls) = 1

\* C7: the persisted record is written at most once per invocation, and
\* only by configure with memory, time and parallelism all given and, when
\* something is already at the path, with the overwrite flag; configure
\* without the flag on an existing record ends with an error and leaves it
\* as it was.
OverwriteProtection ==
    /\ writes <= 1
    /\ (file # file0 \/ writes > 0) =>
         /\ cli.command.kind = "configure"
         /\ AllThree(cli)
         /\ file0.kind # "absent" => cli.command.overwrite
    /\ (cli.command.kind = "configure" /\ ~cli.command.overwrite
          /\ file0.kind = "record" /\ pc # "configure_read") =>
         /\ pc = "done" /\ result \notin {"running", "ok"}
         /\ config_path_ok(cli, defaultDir) => result = "ConfigExists"
         /\ file = file0 /\ writes = 0

\* configure with the overwrite flag has replaced an existing record.
OverwriteProtectionWitness ==
    /\ pc = "done" /\ result = "ok"
    /\ file0.kind = "record" /\ file.kind = "record" /\ file # file0
    /\ writes = 1

\* C8: with memory, time and parallelism given, the resolved memory cost is
\* memory * 1024 * 1024 as a mathematical integer, with no abort, and the
\* primitive receives it, the time and the parallelism unmodified.
MemoryScalingExact ==
    (Deriving /\ pc # "resolve" /\ AllThree(cli))
        => /\ result # "Panic"
           /\ EqualsScaled(params.memory, cli.memory.v)
           /\ \A i \in 1..Len(hashCalls) :
                /\ hashCalls[i].memory_cost_kib = params.memory
                /\ hashCalls[i].iterations = cli.time.v
                /\ hashCalls[i].threads = cli.parallelism.v

\* C9: on a terminal, masked or visible, the passphrase excludes the line's
\* terminator.
TerminalPassphraseTrimmed ==
    (Acquired /\ stdin.terminal) => passphrase = stdin.content

\* C10: with memory, time and parallelism given, the primitive receives the
\* algorithm given on the command line, argon2id when none is given; when
\* the persisted record is used, it receives the algorithm the record's tag
\* names, whatever the command line says.
AlgorithmSource ==
    \A i \in 1..Len(hashCalls) :
        /\ AllThree(cli) =>
             hashCalls[i].algorithm =
                 IF algorithm_arg.some THEN algorithm_arg.v ELSE "argon2id"
        /\ none_defined(cli) =>
             hashCalls[i].algorithm = file0.rec.algorithm

\* The record names argon2d, the command line argon2id, and the primitive
\* was invoked with argon2d.
AlgorithmSourceWitness ==
    /\ none_defined(cli) /\ file0.kind = "record"
    /\ file0.rec.algorithm = "argon2d"
    /\ algorithm_arg = [some |-> TRUE, v |-> "argon2id"]
    /\ Len(hashCalls) = 1 /\ hashCalls[1].algorithm = "argon2d"

====
